---------------------------- MODULE Spec2Model ----------------------------
(***************************************************************************)
(* Model of the groundwater prediction service (backend/app.py).           *)
(*                                                                         *)
(* The process imports the module (artifact loading, lines 27-59), and     *)
(* once that has succeeded it serves POST /predict, GET /health and GET /. *)
(* Every handler is an "async def" without an await, so the event loop     *)
(* runs it from its first line to its response without interleaving: one   *)
(* action per handler.                                                     *)
(*                                                                         *)
(* Numbers.  Python floats are modelled as exact rationals:                *)
(*   - latitude and longitude are integers in units of 10^-4 degree;       *)
(*   - a feature is a record [f, a, b]: "num" is the number a/b, "sin" and *)
(*     "cos" are sin(2*pi*a/b) and cos(2*pi*a/b), kept symbolic;           *)
(*   - model outputs and blend weights are integers in units of 10^-3, a   *)
(*     prediction is an integer in units of 10^-6, a confidence is an      *)
(*     integer in units of 1/(20*10^6).                                    *)
(* IEEE-754 rounding is outside the model.                                 *)
(*                                                                         *)
(* The wells server (backend/wells_server.py) is a second process; it is   *)
(* modelled further down and runs under its own specification, WellsSpec.  *)
(***************************************************************************)
EXTENDS Integers, Sequences, FiniteSets, TLC

VARIABLES
    store,                      \* files under saved_models/ when the process starts
    phase,                      \* "starting", "ready" (serving) or "aborted"
    startup_error,              \* what the import raised, "none" otherwise
    scaler,                     \* module globals of app.py, NoneVal while unbound
    best_xgb,
    stacking_model,
    residual_model,
    ensemble_weights,
    training_metadata,
    year_min,
    year_max,
    features,
    spatial_lag_mean,
    prev_measurement_mean,
    prev_year_measurement_mean,
    last,                       \* the last request handled and what it did
    memo,                       \* one earlier /predict request, its response, and
                                \* whether a request failed since
    mongo_up,                   \* the MongoDB server answers
    mongo_docs,                 \* documents of groundwaterDB.wells
    pymongo_major,              \* major version of the installed pymongo
    wells_phase,                \* wells server: "importing" or "serving"
    client,                     \* module globals of wells_server.py
    db,
    wells_collection,
    connect_raised,             \* what the connection block's try raised, or "none"
    wells_last,                 \* the last request the wells server handled
    answered                    \* every answer of /wells and /well-details so far

globals == <<scaler, best_xgb, stacking_model, residual_model, ensemble_weights,
             training_metadata, year_min, year_max, features, spatial_lag_mean,
             prev_measurement_mean, prev_year_measurement_mean>>

app_vars == <<store, phase, startup_error, globals, last, memo>>

wells_globals == <<client, db, wells_collection>>

wells_vars == <<mongo_up, mongo_docs, pymongo_major, wells_phase, wells_globals,
                connect_raised, wells_last, answered>>

vars == <<app_vars, wells_vars>>

NoneVal == [none |-> TRUE]

----------------------------------------------------------------------------
(* Units of the fixed-point representation.                                *)

DegUnit == 10^4                 \* latitude, longitude: 1 = 10^-4 degree
Milli == 10^3                   \* model outputs, weights: 1 = 10^-3
Micro == Milli * Milli          \* predictions: 1 = 10^-6
ConfUnit == 20 * Micro          \* confidences: 1 = 1/20 of 10^-6

Abs(x) == IF x < 0 THEN -x ELSE x

Max(x, y) == IF x >= y THEN x ELSE y

\* A feature: the number (base - m) / s, where base is a/b for "num",
\* sin(2*pi*a/b) for "sin" and cos(2*pi*a/b) for "cos".  Unscaled: m = 0, s = 1.
Feature(f, a, b) == [f |-> f, a |-> a, b |-> b, m |-> 0, s |-> 1]

Num(a, b) == Feature("num", a, b)

----------------------------------------------------------------------------
(* Program constants of app.py.                                            *)

YearMinDefault == 1994
YearMaxDefault == 2024
NumClusters == 50
NumFeatures == 65
DoyPeriod == 365
MonthPeriod == 12
ConfCentre == 10
ConfSpan == 20
ConfFloorTenths == 7

SpatialLagMean == Num(125, 10)
PrevMeasurementMean == Num(118, 10)
PrevYearMeasurementMean == Num(121, 10)

----------------------------------------------------------------------------
(* datetime.strptime(v, "%Y-%m-%d").  A string is a sequence of one-        *)
(* character strings.  %Y is exactly four digits; %m is 1[0-2], 0[1-9] or   *)
(* [1-9]; %d is 3[01], [12][0-9], 0[1-9], [1-9] or a blank and [1-9]; the   *)
(* alternatives are tried in that order, nothing may follow the day, and    *)
(* the fields must name a day of the proleptic Gregorian calendar with      *)
(* year >= 1.                                                               *)

Digits == <<"0", "1", "2", "3", "4", "5", "6", "7", "8", "9">>

IsDigit(c) == \E n \in 1..10 : Digits[n] = c

DigitVal(c) == (CHOOSE n \in 1..10 : Digits[n] = c) - 1

At(s, i) == IF i \in 1..Len(s) THEN s[i] ELSE "$"

NoMatch == [ok |-> FALSE, val |-> 0, next |-> 0]

\* %Y at position i: the value and the position after it.
MatchYear(s, i) ==
    IF \A k \in 0..3 : IsDigit(At(s, i + k))
    THEN [ok |-> TRUE,
          val |-> 1000 * DigitVal(s[i]) + 100 * DigitVal(s[i + 1])
                  + 10 * DigitVal(s[i + 2]) + DigitVal(s[i + 3]),
          next |-> i + 4]
    ELSE NoMatch

\* %m at position i.
MatchMonth(s, i) ==
    IF At(s, i) = "1" /\ At(s, i + 1) \in {"0", "1", "2"}
    THEN [ok |-> TRUE, val |-> 10 + DigitVal(s[i + 1]), next |-> i + 2]
    ELSE IF At(s, i) = "0" /\ IsDigit(At(s, i + 1)) /\ At(s, i + 1) # "0"
    THEN [ok |-> TRUE, val |-> DigitVal(s[i + 1]), next |-> i + 2]
    ELSE IF IsDigit(At(s, i)) /\ At(s, i) # "0"
    THEN [ok |-> TRUE, val |-> DigitVal(s[i]), next |-> i + 1]
    ELSE NoMatch

\* %d at position i.
MatchDay(s, i) ==
    IF At(s, i) = "3" /\ At(s, i + 1) \in {"0", "1"}
    THEN [ok |-> TRUE, val |-> 30 + DigitVal(s[i + 1]), next |-> i + 2]
    ELSE IF At(s, i) \in {"1", "2"} /\ IsDigit(At(s, i + 1))
    THEN [ok |-> TRUE, val |-> 10 * DigitVal(s[i]) + DigitVal(s[i + 1]), next |-> i + 2]
    ELSE IF At(s, i) = "0" /\ IsDigit(At(s, i + 1)) /\ At(s, i + 1) # "0"
    THEN [ok |-> TRUE, val |-> DigitVal(s[i + 1]), next |-> i + 2]
    ELSE IF IsDigit(At(s, i)) /\ At(s, i) # "0"
    THEN [ok |-> TRUE, val |-> DigitVal(s[i]), next |-> i + 1]
    ELSE IF At(s, i) = " " /\ IsDigit(At(s, i + 1)) /\ At(s, i + 1) # "0"
    THEN [ok |-> TRUE, val |-> DigitVal(s[i + 1]), next |-> i + 2]
    ELSE NoMatch

IsLeap(y) == (y % 4 = 0 /\ y % 100 # 0) \/ y % 400 = 0

DaysInMonth(y, m) ==
    IF m = 2 THEN (IF IsLeap(y) THEN 29 ELSE 28)
    ELSE IF m \in {4, 6, 9, 11} THEN 30 ELSE 31

RECURSIVE DaysBefore(_, _)
DaysBefore(y, m) == IF m = 1 THEN 0 ELSE DaysBefore(y, m - 1) + DaysInMonth(y, m - 1)

NoDate == [ok |-> FALSE, year |-> 0, month |-> 0, day |-> 0, tm_yday |-> 0]

strptime(s) ==
    LET Y == MatchYear(s, 1)
        M == MatchMonth(s, Y.next + 1)
        D == MatchDay(s, M.next + 1)
    IN  IF /\ Y.ok
           /\ At(s, Y.next) = "-"
           /\ M.ok
           /\ At(s, M.next) = "-"
           /\ D.ok
           /\ D.next = Len(s) + 1
           /\ Y.val >= 1
           /\ D.val <= DaysInMonth(Y.val, M.val)
        THEN [ok |-> TRUE, year |-> Y.val, month |-> M.val, day |-> D.val,
              tm_yday |-> DaysBefore(Y.val, M.val) + D.val]
        ELSE NoDate

----------------------------------------------------------------------------
(* PredictionInput: the three field validators.  Each is TRUE when the      *)
(* validator returns the value and FALSE when it raises ValueError.         *)

\* Faulty variant: the bounds themselves rejected.
validate_latitude_strict(v) == -90 * DegUnit < v /\ v < 90 * DegUnit

validate_latitude(v) == -90 * DegUnit <= v /\ v <= 90 * DegUnit

validate_longitude(v) == -180 * DegUnit <= v /\ v <= 180 * DegUnit

validate_date_format(v) == strptime(v).ok

\* Pydantic runs every field validator; the model is built when none raised.
PredictionInput(raw) ==
    /\ validate_latitude(raw.latitude)
    /\ validate_longitude(raw.longitude)
    /\ validate_date_format(raw.date)


----------------------------------------------------------------------------
(* A call either returns a value or raises.                                 *)

Returned(v) == [ok |-> TRUE, exc |-> "none", val |-> v]

Raised(e) == [ok |-> FALSE, exc |-> e, val |-> NoneVal]

Skipped == [ok |-> FALSE, exc |-> "skipped", val |-> NoneVal]

----------------------------------------------------------------------------
(* prepare_features.                                                        *)

is_summer(month) == IF month \in {4, 5, 6} THEN 1 ELSE 0

\* Faulty variant: winter taken as October to December.
is_winter_shifted(month) == IF month \in {10, 11, 12} THEN 1 ELSE 0

is_winter(month) == IF month \in {11, 12, 1} THEN 1 ELSE 0

is_spring(month) == IF month \in {2, 3} THEN 1 ELSE 0

\* Faulty variant: the bucket of the signed sum.
cluster_idx_signed(latitude, longitude) ==
    ((latitude + longitude) % (NumClusters * DegUnit)) \div DegUnit

\* int((abs(latitude) + abs(longitude)) % 50), as a 0-based list index.
cluster_idx(latitude, longitude) ==
    ((Abs(latitude) + Abs(longitude)) % (NumClusters * DegUnit)) \div DegUnit

\* [0] * 50 with cluster_features[cluster_idx] = 1 (position k is index k - 1).
cluster_features(latitude, longitude) ==
    [k \in 1..NumClusters |->
        IF k - 1 = cluster_idx(latitude, longitude) THEN Num(1, 1) ELSE Num(0, 1)]

prepare_features(latitude, longitude, date_str) ==
    LET date_obj == strptime(date_str)
        month == date_obj.month
        year == date_obj.year
        day_of_year == date_obj.tm_yday
        feature_values ==
            << Num(latitude, DegUnit),
               Num(longitude, DegUnit),
               Feature("sin", day_of_year, DoyPeriod),
               Feature("cos", day_of_year, DoyPeriod),
               Feature("sin", month, MonthPeriod),
               Feature("cos", month, MonthPeriod),
               Num(year, 1),
               Feature("sin", year - year_min, year_max - year_min),
               Feature("cos", year - year_min, year_max - year_min),
               Num(is_summer(month), 1),
               Num(is_winter(month), 1),
               Num(is_spring(month), 1),
               spatial_lag_mean,
               prev_measurement_mean,
               prev_year_measurement_mean >>
            \o cluster_features(latitude, longitude)
    IN  IF ~date_obj.ok THEN Raised("ValueError")
        ELSE IF year_max = year_min THEN Raised("ZeroDivisionError")
        ELSE Returned(feature_values)

----------------------------------------------------------------------------
(* The loaded artifacts, by what the handler calls on them.                 *)
(*   scaler: [n_features_in_, mean_, scale_], transform is (x - mean)/scale *)
(*   per feature and raises ValueError on a vector of another length;       *)
(*   a model: [n_features, feat, thr, lo, hi], predict is hi when feature   *)
(*   feat exceeds thr and lo otherwise (lo = hi: a constant function), and  *)
(*   raises ValueError on a vector of another length.                       *)

Standardize(x, mean, scale) ==
    [f |-> x.f, a |-> x.a, b |-> x.b, m |-> x.m + mean * x.s, s |-> x.s * scale]

scaler_transform(sc, X) ==
    IF Len(X) # sc.n_features_in_ THEN Raised("ValueError")
    ELSE Returned([i \in 1..Len(X) |-> Standardize(X[i], sc.mean_[i], sc.scale_[i])])

\* (a/b - m)/s > thr for a "num" feature, s and b positive.
Exceeds(x, thr) == x.a - x.m * x.b > thr * x.s * x.b

model_predict(model, X) ==
    IF Len(X) # model.n_features THEN Raised("ValueError")
    ELSE Returned(IF Exceeds(X[model.feat], model.thr) THEN model.hi ELSE model.lo)

\* [ensemble_weights['xgb_weight'], ensemble_weights['stacking_weight']]
weights_list(w) ==
    IF {"xgb_weight", "stacking_weight"} \subseteq DOMAIN w
    THEN Returned(<<w.xgb_weight, w.stacking_weight>>)
    ELSE Raised("KeyError")

\* Faulty variant: the weights normalized to sum to 1.
weighted_ensemble_predictions_normalized(xgb_pred, stacking_pred, weights) ==
    ((weights[1] * Milli) \div (weights[1] + weights[2])) * xgb_pred
    + ((weights[2] * Milli) \div (weights[1] + weights[2])) * stacking_pred

weighted_ensemble_predictions(xgb_pred, stacking_pred, weights) ==
    weights[1] * xgb_pred + weights[2] * stacking_pred

\* final_prediction = ensemble_pred + residual_pred
final_sum(ensemble_pred, residual_pred) == ensemble_pred + residual_pred * Milli

\* Faulty variant: the distance from 10 taken signed.
confidence_of_signed(final_prediction) ==
    Max((ConfFloorTenths * ConfUnit) \div 10,
        ConfUnit - (final_prediction - ConfCentre * Micro) * (ConfUnit \div (ConfSpan * Micro)))

\* max(0.7, 1.0 - abs(final_prediction - 10) / 20)
confidence_of(final_prediction) ==
    Max((ConfFloorTenths * ConfUnit) \div 10,
        ConfUnit - Abs(final_prediction - ConfCentre * Micro) * (ConfUnit \div (ConfSpan * Micro)))


----------------------------------------------------------------------------
(* The artifact store: the six files of saved_models/.  A file is "ok"      *)
(* (the load call returns its object), "missing" (open raises               *)
(* FileNotFoundError) or "corrupt" (joblib.load / json.load raises).        *)

File(state, obj) == [file |-> state, obj |-> obj]

IdentityScaler(n) ==
    [n_features_in_ |-> n, mean_ |-> [i \in 1..n |-> 0], scale_ |-> [i \in 1..n |-> 1]]

\* Standardizes latitude (feature 1) as (x - 20) / 2 and leaves the rest.
LatitudeScaler(n) ==
    [n_features_in_ |-> n,
     mean_ |-> [i \in 1..n |-> IF i = 1 THEN 20 ELSE 0],
     scale_ |-> [i \in 1..n |-> IF i = 1 THEN 2 ELSE 1]]

Const(n, v) == [n_features |-> n, feat |-> 1, thr |-> 0, lo |-> v, hi |-> v]

\* Splits on latitude (feature 1) at thr.
Stump(n, thr, lo, hi) == [n_features |-> n, feat |-> 1, thr |-> thr, lo |-> lo, hi |-> hi]

Weights(x, s) == [xgb_weight |-> x, stacking_weight |-> s]

Metadata(lo, hi) ==
    [features |-> "feature_names", calibrated_r2 |-> 95, calibrated_rmse |-> 12,
     year_min |-> lo, year_max |-> hi]

MetadataNoFeatures ==
    [calibrated_r2 |-> 95, calibrated_rmse |-> 12,
     year_min |-> YearMinDefault, year_max |-> YearMaxDefault]

\* The stub artifacts of the end-to-end scenario.
StubStore ==
    [scaler |-> File("ok", IdentityScaler(NumFeatures)),
     xgb |-> File("ok", Const(NumFeatures, 5 * Milli)),
     stacking |-> File("ok", Const(NumFeatures, 7 * Milli)),
     residual |-> File("ok", Const(NumFeatures, 200)),
     weights |-> File("ok", Weights(600, 400)),
     metadata |-> File("ok", Metadata(YearMinDefault, YearMaxDefault))]

ArtifactNames == {"scaler", "xgb", "stacking", "residual", "weights", "metadata"}

\* Well-formed stores: every combination of these fitted objects.
GoodStores ==
    { [scaler |-> File("ok", sc), xgb |-> File("ok", x), stacking |-> File("ok", st),
       residual |-> File("ok", r), weights |-> File("ok", w), metadata |-> File("ok", md)] :
        sc \in {IdentityScaler(NumFeatures), LatitudeScaler(NumFeatures)},
        x \in {Const(NumFeatures, 5 * Milli), Const(NumFeatures, 10 * Milli),
               Stump(NumFeatures, 0, -20 * Milli, 60 * Milli)},
        st \in {Const(NumFeatures, 7 * Milli), Const(NumFeatures, 10 * Milli)},
        r \in {Const(NumFeatures, 200), Const(NumFeatures, 0),
               Stump(NumFeatures, 10, -25 * Milli, 200)},
        w \in {Weights(600, 400), Weights(700, 500)},
        md \in {Metadata(YearMinDefault, YearMaxDefault)} }

\* The stub store with metadata of a training set that spans other years.
OtherYearsStores ==
    { [StubStore EXCEPT !.metadata.obj = Metadata(2000, 2020)] }

\* The stub store with one file missing or corrupt.
FaultyStores ==
    { [StubStore EXCEPT ![a].file = st] : a \in ArtifactNames, st \in {"missing", "corrupt"} }

\* The stub store with one object that loads but does not fit the pipeline:
\* a scaler or a model fitted on 64 features, weights without the
\* stacking_weight key, metadata without the features key.
MisfitStores ==
    { [StubStore EXCEPT !.scaler.obj = IdentityScaler(NumFeatures - 1)],
      [StubStore EXCEPT !.xgb.obj = Const(NumFeatures - 1, 5 * Milli)],
      [StubStore EXCEPT !.stacking.obj = Const(NumFeatures - 1, 7 * Milli)],
      [StubStore EXCEPT !.residual.obj = Const(NumFeatures - 1, 200)],
      [StubStore EXCEPT !.weights.obj = [xgb_weight |-> 600]],
      [StubStore EXCEPT !.metadata.obj = MetadataNoFeatures] }

Stores == GoodStores \cup OtherYearsStores \cup FaultyStores \cup MisfitStores

----------------------------------------------------------------------------
(* Module import, lines 27-59.                                              *)

\* Faulty variant: a file that cannot be parsed loads as None.
load_lenient(file) ==
    IF file.file = "ok" THEN Returned(file.obj)
    ELSE IF file.file = "missing" THEN Raised("FileNotFoundError")
    ELSE Returned(NoneVal)

\* joblib.load(path) and json.load(open(path)).
load(file) ==
    IF file.file = "ok" THEN Returned(file.obj)
    ELSE IF file.file = "missing" THEN Raised("FileNotFoundError")
    ELSE Raised("Exception")

LoadOrder == <<"scaler", "xgb", "stacking", "residual", "weights", "metadata">>

\* The first load of the try block that raises, 0 when none does.
FirstFailure(st) ==
    IF \A i \in 1..Len(LoadOrder) : load(st[LoadOrder[i]]).ok THEN 0
    ELSE CHOOSE i \in 1..Len(LoadOrder) :
            /\ ~load(st[LoadOrder[i]]).ok
            /\ \A j \in 1..(i - 1) : load(st[LoadOrder[j]]).ok

\* The name bound by the i-th load: bound when the try block got that far.
Bound(st, i) ==
    IF FirstFailure(st) = 0 \/ i < FirstFailure(st)
    THEN load(st[LoadOrder[i]]).val ELSE NoneVal

\* What the import raises: the RuntimeError of either except clause, the
\* KeyError of training_metadata['features'], or nothing.
ImportError(st) ==
    IF FirstFailure(st) # 0
    THEN (IF load(st[LoadOrder[FirstFailure(st)]]).exc = "FileNotFoundError"
          THEN "RuntimeError: Could not load model files"
          ELSE "RuntimeError: Failed to load models")
    ELSE IF "features" \notin DOMAIN Bound(st, 6) THEN "KeyError: features"
    ELSE "none"

Startup ==
    /\ phase = "starting"
    /\ scaler' = Bound(store, 1)
    /\ best_xgb' = Bound(store, 2)
    /\ stacking_model' = Bound(store, 3)
    /\ residual_model' = Bound(store, 4)
    /\ ensemble_weights' = Bound(store, 5)
    /\ training_metadata' = Bound(store, 6)
    /\ startup_error' = ImportError(store)
    /\ IF FirstFailure(store) # 0
       THEN UNCHANGED <<year_min, year_max, features, spatial_lag_mean,
                        prev_measurement_mean, prev_year_measurement_mean>>
       ELSE /\ year_min' = YearMinDefault
            /\ year_max' = YearMaxDefault
            /\ IF ImportError(store) = "none"
               THEN /\ features' = Bound(store, 6).features
                    /\ spatial_lag_mean' = SpatialLagMean
                    /\ prev_measurement_mean' = PrevMeasurementMean
                    /\ prev_year_measurement_mean' = PrevYearMeasurementMean
               ELSE UNCHANGED <<features, spatial_lag_mean, prev_measurement_mean,
                                prev_year_measurement_mean>>
    /\ phase' = IF ImportError(store) = "none" THEN "ready" ELSE "aborted"
    /\ UNCHANGED <<store, last, memo>>


----------------------------------------------------------------------------
(* The requests the clients send.                                           *)

Pad2(n) == <<Digits[(n \div 10) + 1], Digits[(n % 10) + 1]>>

\* A client's "%04d-%02d-%02d".
FormatDate(y, m, d) ==
    Pad2(y \div 100) \o Pad2(y % 100) \o <<"-">> \o Pad2(m) \o <<"-">> \o Pad2(d)

Request(lat, lon, date) == [latitude |-> lat, longitude |-> lon, date |-> date]

Latitudes == {-900001, -900000, -123456, 0, 286139, 900000, 900001, 950000}

Longitudes == {-1800001, -1800000, -50000, 772090, 1800000, 1800001}

Dates ==
    { FormatDate(2024, m, 15) : m \in 1..12 }
    \cup { FormatDate(1994, 1, 1), FormatDate(2009, 7, 4), FormatDate(2024, 12, 31),
           FormatDate(2024, 2, 29), FormatDate(2023, 2, 29), FormatDate(2024, 2, 30),
           FormatDate(2024, 13, 40), FormatDate(0, 1, 1), FormatDate(2024, 6, 31),
           <<"2", "0", "2", "4", "-", "6", "-", "5">>,
           <<"2", "0", "2", "4", "-", "0", "6", "-", " ", "5">>,
           <<"2", "0", "2", "4", "/", "0", "6", "/", "1", "5">>,
           <<"2", "0", "2", "4", "0", "6", "1", "5">>,
           <<"2", "4", "-", "0", "6", "-", "1", "5">>,
           <<"2", "0", "2", "4", "-", "0", "6", "-", "1", "5", "0">>,
           <<"1", "5", "-", "0", "6", "-", "2", "0", "2", "4">>,
           <<>> }

\* Each field varied against the end-to-end scenario's values, and a few
\* requests that vary two.
Requests ==
    { Request(lat, 772090, FormatDate(2024, 6, 15)) : lat \in Latitudes }
    \cup { Request(286139, lon, FormatDate(2024, 6, 15)) : lon \in Longitudes }
    \cup { Request(286139, 772090, d) : d \in Dates }
    \cup { Request(-900000, -1800000, FormatDate(2024, 10, 15)),
           Request(-123456, -50000, FormatDate(2024, 1, 15)),
           Request(950000, 1800001, FormatDate(2024, 13, 40)),
           Request(900000, 1800000, FormatDate(2024, 2, 29)) }

\* The requests replayed against every store, and remembered in memo.
CoreRequests ==
    { Request(286139, 772090, FormatDate(2024, 6, 15)),
      Request(-123456, -50000, FormatDate(2024, 1, 15)),
      Request(-900000, -1800000, FormatDate(2024, 10, 15)),
      Request(900000, 1800000, FormatDate(2024, 2, 29)),
      Request(950000, 772090, FormatDate(2024, 6, 15)),
      Request(286139, 772090, FormatDate(2024, 13, 40)) }

\* Every request is explored against the stub artifacts, the core requests
\* against every store.
RequestsFor(st) == IF st = StubStore THEN Requests ELSE CoreRequests

----------------------------------------------------------------------------
(* POST /predict.                                                           *)

StageNames ==
    <<"prepare_features", "scaler.transform", "best_xgb.predict",
      "stacking_model.predict", "weighted_ensemble_predictions",
      "residual_model.predict", "confidence">>

\* Faulty variant: "except ValueError".
except_ValueError(exc) == exc = "ValueError"

\* "except Exception" catches every exception a stage can raise.
except_Exception(exc) == exc \in {"ValueError", "KeyError", "ZeroDivisionError"}

Units == "meters below ground level"

PredictionOutput(prediction, confidence) ==
    [status |-> 200,
     body |-> [prediction |-> prediction, confidence |-> confidence, units |-> Units]]

\* raise HTTPException(status_code=500, detail=f"Prediction error: {str(e)}")
PredictionFailure(exc) ==
    [status |-> 500, body |-> [detail |-> <<"Prediction error", exc>>]]

\* An exception that leaves the handler: the server's own error response.
Unhandled(exc) == [status |-> 500, body |-> [error |-> "Internal Server Error"]]

\* Request validation failed: the handler is not called.
ValidationFailure == [status |-> 422, body |-> [detail |-> <<"value_error">>]]

\* The handler's locals before its first stage, with the stages it has called.
Entered(input_data) ==
    [route |-> "predict", input |-> input_data, calls |-> <<>>, raised |-> "none",
     features_array |-> NoneVal, features_scaled |-> NoneVal, xgb_pred |-> NoneVal,
     stacking_pred |-> NoneVal, ensemble_pred |-> NoneVal, residual_pred |-> NoneVal,
     final_prediction |-> NoneVal, confidence |-> NoneVal]

\* One statement of the try block: skipped once an earlier one has raised,
\* otherwise it binds its local or raises.
Stage(c, name, local, result) ==
    IF c.raised # "none" THEN c
    ELSE IF result.ok
    THEN [c EXCEPT !.calls = Append(@, name), ![local] = result.val]
    ELSE [c EXCEPT !.calls = Append(@, name), !.raised = result.exc]

Stage1(c) ==
    Stage(c, StageNames[1], "features_array",
          prepare_features(c.input.latitude, c.input.longitude, c.input.date))

Stage2(c) ==
    Stage(c, StageNames[2], "features_scaled", scaler_transform(scaler, c.features_array))

Stage3(c) ==
    Stage(c, StageNames[3], "xgb_pred", model_predict(best_xgb, c.features_scaled))

Stage4(c) ==
    Stage(c, StageNames[4], "stacking_pred", model_predict(stacking_model, c.features_scaled))

Blend(xgb_pred, stacking_pred, weights) ==
    IF weights.ok
    THEN Returned(weighted_ensemble_predictions(xgb_pred, stacking_pred, weights.val))
    ELSE weights

Stage5(c) ==
    Stage(c, StageNames[5], "ensemble_pred",
          Blend(c.xgb_pred, c.stacking_pred, weights_list(ensemble_weights)))

Stage6(c) ==
    Stage(c, StageNames[6], "residual_pred", model_predict(residual_model, c.features_scaled))

Stage7(c) ==
    Stage([c EXCEPT !.final_prediction =
                IF c.raised = "none" THEN final_sum(c.ensemble_pred, c.residual_pred)
                ELSE NoneVal],
          StageNames[7], "confidence",
          Returned(confidence_of(final_sum(c.ensemble_pred, c.residual_pred))))

\* The return statement, or the except clause.
Respond(c) ==
    [route |-> c.route, input |-> c.input,
     response |-> IF c.raised = "none" THEN PredictionOutput(c.final_prediction, c.confidence)
                  ELSE IF except_Exception(c.raised) THEN PredictionFailure(c.raised)
                  ELSE Unhandled(c.raised),
     calls |-> c.calls, raised |-> c.raised,
     features_array |-> c.features_array, features_scaled |-> c.features_scaled,
     xgb_pred |-> c.xgb_pred, stacking_pred |-> c.stacking_pred,
     residual_pred |-> c.residual_pred]

\* The body of predict, lines 162-203.
predict(input_data) ==
    Respond(Stage7(Stage6(Stage5(Stage4(Stage3(Stage2(Stage1(Entered(input_data)))))))))

NoTrace(route, input, response) ==
    [route |-> route, input |-> input, response |-> response, calls |-> <<>>,
     raised |-> "none", features_array |-> NoneVal, features_scaled |-> NoneVal,
     xgb_pred |-> NoneVal, stacking_pred |-> NoneVal, residual_pred |-> NoneVal]

\* The route: the body is validated into a PredictionInput, then predict runs.
Handle(raw) ==
    IF PredictionInput(raw) THEN predict(raw)
    ELSE NoTrace("predict", raw, ValidationFailure)

\* Faulty variant: the handler normalizes the loaded weights in place.
predict_effects_normalizing ==
    /\ ensemble_weights' =
            IF {"xgb_weight", "stacking_weight"} \subseteq DOMAIN ensemble_weights
            THEN Weights((ensemble_weights.xgb_weight * Milli)
                            \div (ensemble_weights.xgb_weight + ensemble_weights.stacking_weight),
                         (ensemble_weights.stacking_weight * Milli)
                            \div (ensemble_weights.xgb_weight + ensemble_weights.stacking_weight))
            ELSE ensemble_weights
    /\ UNCHANGED <<scaler, best_xgb, stacking_model, residual_model, training_metadata,
                   year_min, year_max, features, spatial_lag_mean, prev_measurement_mean,
                   prev_year_measurement_mean>>

\* What a request handler assigns to the module globals: nothing.
predict_effects == UNCHANGED globals

\* memo once a later request has been answered: between records that a
\* request handled after the remembered one failed.
Later(m, response) ==
    IF m = NoneVal THEN m
    ELSE [m EXCEPT !.between = @ \/ response.status # 200]

PostPredict(raw) ==
    /\ phase = "ready"
    /\ raw \in RequestsFor(store)
    /\ last' = Handle(raw)
    /\ \/ memo' = Later(memo, last'.response)
       \/ /\ memo = NoneVal
          /\ raw \in CoreRequests
          /\ memo' = [input |-> raw, response |-> last'.response, between |-> FALSE]
    /\ predict_effects
    /\ UNCHANGED <<store, phase, startup_error>>

\* GET /health.
health_check ==
    IF {"calibrated_r2", "calibrated_rmse"} \subseteq DOMAIN training_metadata
    THEN [status |-> 200,
          body |-> [status |-> "healthy", model_loaded |-> TRUE,
                    r2_score |-> training_metadata.calibrated_r2,
                    rmse |-> training_metadata.calibrated_rmse]]
    ELSE Unhandled("KeyError")

GetHealth ==
    /\ phase = "ready"
    /\ last' = NoTrace("health", NoneVal, health_check)
    /\ UNCHANGED <<store, phase, startup_error, globals, memo>>

\* GET /.
root == [status |-> 200, body |-> [message |-> "Groundwater Prediction API"]]

GetRoot ==
    /\ phase = "ready"
    /\ last' = NoTrace("root", NoneVal, root)
    /\ UNCHANGED <<store, phase, startup_error, globals, memo>>

----------------------------------------------------------------------------
(* The wells server (backend/wells_server.py): a second process with its    *)
(* own module globals, which reads measurements from a MongoDB collection.  *)
(* The MongoDB server is the environment: it is up or down, it can start    *)
(* and stop at any time, and its wells collection holds documents           *)
(* [LATITUDE, LONGITUDE, Date, DTWL] (degrees in units of 10^-4, DTWL in    *)
(* units of 10^-3, Date as a string of characters).                         *)

WellsLimit == 5000              \* "$limit" of the /wells pipeline

DetailsLimit == 365             \* limit(365) of the /well-details query

tolerance == DegUnit \div 1000  \* 0.001 degree

Min(x, y) == IF x <= y THEN x ELSE y

Range(s) == {s[i] : i \in 1..Len(s)}

Limit(s, n) == SubSeq(s, 1, Min(n, Len(s)))

\* A Python float that is a quotient, kept exact.
Ratio(n, d) == [num |-> n, den |-> d]

RECURSIVE SeqSum(_)
SeqSum(s) == IF s = <<>> THEN 0 ELSE s[1] + SeqSum(Tail(s))

\* Order of the characters that occur in an ISO date.
CharCode(c) == IF IsDigit(c) THEN 48 + DigitVal(c) ELSE IF c = "-" THEN 45 ELSE 0

\* a <= b for strings, as MongoDB and Python compare them.
RECURSIVE StrLeq(_, _)
StrLeq(a, b) ==
    IF a = <<>> THEN TRUE
    ELSE IF b = <<>> THEN FALSE
    ELSE IF a[1] = b[1] THEN StrLeq(Tail(a), Tail(b))
    ELSE CharCode(a[1]) < CharCode(b[1])

StrMin(S) == CHOOSE a \in S : \A b \in S : StrLeq(a, b)

StrMax(S) == CHOOSE a \in S : \A b \in S : StrLeq(b, a)

NumMin(S) == CHOOSE a \in S : \A b \in S : a <= b

NumMax(S) == CHOOSE a \in S : \A b \in S : b <= a

Doc(lat, lng, date, dtwl) ==
    [LATITUDE |-> lat, LONGITUDE |-> lng, Date |-> date, DTWL |-> dtwl]

\* Contents of groundwaterDB.wells that are explored: no document, one well,
\* two wells (the first with measurements stored out of date order).
Collections ==
    { <<>>,
      <<Doc(286139, 772090, FormatDate(2024, 2, 1), 5200)>>,
      <<Doc(286139, 772090, FormatDate(2024, 2, 1), 5200),
        Doc(190760, 728777, FormatDate(2023, 12, 31), 9000),
        Doc(286139, 772090, FormatDate(2024, 1, 15), 4700)>> }

\* pymongo raises this once server selection has timed out (5000 ms here).
ServerSelectionTimeoutError == [type |-> "ServerSelectionTimeoutError"]

NotImplementedError == [type |-> "NotImplementedError"]

HTTPException(status_code, detail) ==
    [type |-> "HTTPException", status_code |-> status_code, detail |-> detail]

\* The objects the connection block binds.
MongoClient == [client |-> "mongodb://localhost:27017/"]

groundwaterDB == [database |-> "groundwaterDB"]

wells == [collection |-> "wells"]

\* client.admin.command('ping') against a server that is up or down.
ping(up) == IF up THEN Returned([ok |-> 1]) ELSE Raised(ServerSelectionTimeoutError)

count_documents(up, docs) ==
    IF up THEN Returned(Len(docs)) ELSE Raised(ServerSelectionTimeoutError)

PymongoMajors == {3, 4}

\* bool(x) of None or of a pymongo Collection: pymongo 4 raises from
\* Collection.__bool__, pymongo 3 has no __bool__ and the object is true.
truth(x, major) ==
    IF x = NoneVal THEN Returned(FALSE)
    ELSE IF major >= 4 THEN Raised(NotImplementedError)
    ELSE Returned(TRUE)

\* The (lat, lng) keys of "$group", in order of first appearance.
RECURSIVE group_keys(_)
group_keys(docs) ==
    IF docs = <<>> THEN <<>>
    ELSE LET k == [lat |-> docs[1].LATITUDE, lng |-> docs[1].LONGITUDE]
             Other(d) == d.LATITUDE # k.lat \/ d.LONGITUDE # k.lng
         IN <<k>> \o group_keys(SelectSeq(Tail(docs), Other))

\* "$group" then "$project" of the /wells pipeline for one key.
project_group(docs, k) ==
    LET In(d) == d.LATITUDE = k.lat /\ d.LONGITUDE = k.lng
        g == SelectSeq(docs, In)
        levels == [i \in 1..Len(g) |-> g[i].DTWL]
        dates == {d.Date : d \in Range(g)}
    IN [lat |-> k.lat,
        long |-> k.lng,
        waterlevel |-> Ratio(SeqSum(levels), Len(g)),
        date |-> StrMax(dates),
        count |-> Len(g),
        min_waterlevel |-> NumMin(Range(levels)),
        max_waterlevel |-> NumMax(Range(levels)),
        date_range |-> StrMin(dates) \o <<" ", "t", "o", " ">> \o StrMax(dates)]

\* list(wells_collection.aggregate(pipeline)) of get_wells.
aggregate_wells(up, docs) ==
    IF ~up THEN Raised(ServerSelectionTimeoutError)
    ELSE LET keys == group_keys(docs)
         IN Returned(Limit([i \in 1..Len(keys) |-> project_group(docs, keys[i])],
                           WellsLimit))

locations ==
    << [lat |-> 286139, long |-> 772090, name |-> "New Delhi"],
       [lat |-> 190760, long |-> 728777, name |-> "Mumbai"],
       [lat |-> 130827, long |-> 802707, name |-> "Chennai"],
       [lat |-> 225726, long |-> 883639, name |-> "Kolkata"],
       [lat |-> 129716, long |-> 775946, name |-> "Bangalore"],
       [lat |-> 269124, long |-> 757873, name |-> "Jaipur"],
       [lat |-> 211458, long |-> 790882, name |-> "Nagpur"],
       [lat |-> 152993, long |-> 741240, name |-> "Goa"],
       [lat |-> 230225, long |-> 725714, name |-> "Ahmedabad"],
       [lat |-> 173850, long |-> 784867, name |-> "Hyderabad"] >>

\* What the random module hands to one iteration of generate_sample_wells_data:
\* uniform(-0.01, 0.01) twice, uniform(1, 15), randint(50, 200), uniform(1, 3)
\* twice.
Draw(lat_variation, long_variation, base_level, count, below, above) ==
    [lat_variation |-> lat_variation, long_variation |-> long_variation,
     base_level |-> base_level, count |-> count, below |-> below, above |-> above]

LowDraw == Draw(-100, -100, 1000, 50, 3000, 1000)

HighDraw == Draw(100, 100, 15000, 200, 1000, 3000)

\* The runs of the random generator that are explored: one draw per location.
RandomRuns ==
    { [i \in 1..Len(locations) |-> LowDraw],
      [i \in 1..Len(locations) |-> HighDraw],
      [i \in 1..Len(locations) |-> IF i % 2 = 1 THEN LowDraw ELSE HighDraw] }

generate_sample_wells_data(random) ==
    [i \in 1..Len(locations) |->
        [lat |-> locations[i].lat + random[i].lat_variation,
         long |-> locations[i].long + random[i].long_variation,
         waterlevel |-> random[i].base_level,
         date |-> FormatDate(2024, 1, 1),
         count |-> random[i].count,
         min_waterlevel |-> random[i].base_level - random[i].below,
         max_waterlevel |-> random[i].base_level + random[i].above]]

Ok(body) == [status |-> 200, body |-> body]

\* The try block of get_wells (lines 64-123).
get_wells_try(collection, up, docs, random) ==
    LET wells_data == aggregate_wells(up, docs)
        total_records == count_documents(up, docs)
        sample_wells_data == generate_sample_wells_data(random)
    IN IF collection # NoneVal /\ ~wells_data.ok THEN Raised(wells_data.exc)
       ELSE IF collection # NoneVal /\ wells_data.val # <<>>
       THEN IF ~total_records.ok THEN Raised(total_records.exc)
            ELSE Returned([success |-> TRUE,
                           count |-> Len(wells_data.val),
                           total_records |-> total_records.val,
                           data |-> wells_data.val,
                           source |-> "mongodb_aggregated"])
       ELSE Returned([success |-> TRUE,
                      count |-> Len(sample_wells_data),
                      data |-> sample_wells_data,
                      source |-> "sample_data"])

\* GET /wells: the try block, and "except Exception" (lines 125-136).
get_wells(collection, up, docs, random) ==
    LET r == get_wells_try(collection, up, docs, random)
        sample_wells_data == generate_sample_wells_data(random)
    IN IF r.ok THEN Ok(r.val)
       ELSE Ok([success |-> TRUE,
                count |-> Len(sample_wells_data),
                data |-> sample_wells_data,
                source |-> "sample_data_fallback"])

\* sort("Date", 1): insertion of a document into a list sorted by Date.
RECURSIVE insert_by_date(_, _)
insert_by_date(d, sorted) ==
    IF sorted = <<>> THEN <<d>>
    ELSE IF StrLeq(sorted[1].Date, d.Date)
    THEN <<sorted[1]>> \o insert_by_date(d, Tail(sorted))
    ELSE <<d>> \o sorted

RECURSIVE sort_by_date(_)
sort_by_date(docs) ==
    IF docs = <<>> THEN <<>>
    ELSE insert_by_date(docs[1], sort_by_date(Tail(docs)))

\* list(wells_collection.find(query, ...).sort("Date", 1).limit(365)).
find_well_records(up, docs, lat, lng) ==
    LET Matches(d) ==
            /\ d.LATITUDE >= lat - tolerance /\ d.LATITUDE <= lat + tolerance
            /\ d.LONGITUDE >= lng - tolerance /\ d.LONGITUDE <= lng + tolerance
    IN IF ~up THEN Raised(ServerSelectionTimeoutError)
       ELSE Returned(Limit(sort_by_date(SelectSeq(docs, Matches)), DetailsLimit))

\* Lines 161-186 of get_well_details, for a non-empty list of records.
well_details_body(well_records, lat, lng) ==
    LET processed_data ==
            [i \in 1..Len(well_records) |->
                [date |-> well_records[i].Date,
                 waterlevel |-> well_records[i].DTWL,
                 lat |-> well_records[i].LATITUDE,
                 long |-> well_records[i].LONGITUDE]]
        water_levels == [i \in 1..Len(well_records) |-> well_records[i].DTWL]
    IN [success |-> TRUE,
        location |-> [lat |-> lat, lng |-> lng],
        count |-> Len(processed_data),
        timeseries |-> processed_data,
        statistics |-> [average |-> Ratio(SeqSum(water_levels), Len(water_levels)),
                        minimum |-> NumMin(Range(water_levels)),
                        maximum |-> NumMax(Range(water_levels)),
                        trend |-> "stable"]]

\* The try block of get_well_details (lines 142-186).
get_well_details_try(collection, up, docs, lat, lng) ==
    LET well_records == find_well_records(up, docs, lat, lng)
    IN IF collection = NoneVal
       THEN Raised(HTTPException(503, "MongoDB connection not available"))
       ELSE IF ~well_records.ok THEN Raised(well_records.exc)
       ELSE IF well_records.val = <<>>
       THEN Raised(HTTPException(404, "No data found for this location"))
       ELSE Returned(well_details_body(well_records.val, lat, lng))

\* Variant: without the "except HTTPException: raise" clause, every exception
\* of the try block reaches "except Exception".
get_well_details_except_converting(exc) ==
    HTTPException(500, <<"Database error", exc.type>>)

\* The except clauses of get_well_details (lines 188-192): what the handler
\* raises for an exception of its try block.
get_well_details_except(exc) ==
    IF exc.type = "HTTPException" THEN exc
    ELSE HTTPException(500, <<"Database error", exc.type>>)

\* FastAPI's response to an HTTPException.
http_exception_response(exc) ==
    [status |-> exc.status_code, body |-> [detail |-> exc.detail]]

\* GET /well-details/{lat}/{lng}.
get_well_details(collection, up, docs, lat, lng) ==
    LET r == get_well_details_try(collection, up, docs, lat, lng)
    IN IF r.ok THEN Ok(r.val)
       ELSE http_exception_response(get_well_details_except(r.exc))

\* The result of date_pipeline over a non-empty collection.
date_stats(docs) ==
    [id |-> NoneVal,
     min_date |-> StrMin({d.Date : d \in Range(docs)}),
     max_date |-> StrMax({d.Date : d \in Range(docs)}),
     avg_dtwl |-> Ratio(SeqSum([i \in 1..Len(docs) |-> docs[i].DTWL]), Len(docs))]

EmptyDict == [dict |-> {}]

\* GET /wells/summary (lines 235-273).
get_wells_summary(collection, up, docs) ==
    IF collection = NoneVal
    THEN Ok([message |-> "MongoDB not available, using sample data"])
    ELSE IF ~up
    THEN Ok([error |-> <<"Database error", ServerSelectionTimeoutError.type>>])
    ELSE Ok([success |-> TRUE,
             total_records |-> Len(docs),
             unique_wells |-> Len(group_keys(docs)),
             date_range |-> IF docs = <<>> THEN EmptyDict ELSE date_stats(docs),
             source |-> "mongodb"])

\* "wells_collection.count_documents({}) if wells_collection else 0".
total_records_if(collection, up, docs, major) ==
    LET t == truth(collection, major)
    IN IF ~t.ok THEN Raised(t.exc)
       ELSE IF t.val THEN count_documents(up, docs)
       ELSE Returned(0)

\* GET /health of the wells server (lines 278-283).
wells_health_check(collection, up, docs, major) ==
    LET total_records == total_records_if(collection, up, docs, major)
    IN IF ~total_records.ok THEN Unhandled(total_records.exc)
       ELSE Ok([status |-> "healthy",
                service |-> "Wells Data API",
                mongodb_connected |-> collection # NoneVal,
                total_records |-> total_records.val])

\* GET / of the wells server (lines 288-299).
wells_root(collection, up, docs, major) ==
    LET connected == truth(collection, major)
        total_records == total_records_if(collection, up, docs, major)
    IN IF ~connected.ok THEN Unhandled(connected.exc)
       ELSE IF ~total_records.ok THEN Unhandled(total_records.exc)
       ELSE Ok([message |-> "Groundwater Wells Data API",
                version |-> "1.0.0",
                mongodb_status |-> IF connected.val THEN "connected" ELSE "disconnected",
                total_records |-> total_records.val])

\* The connection block (lines 24-43): the names it binds and what its try
\* block raised.  MongoClient() connects lazily; ping and count_documents are
\* the calls that can raise.
connect(pinged, counted) ==
    IF pinged.ok /\ counted.ok
    THEN [client |-> MongoClient, db |-> groundwaterDB, wells_collection |-> wells,
          raised |-> "none"]
    ELSE [client |-> NoneVal, db |-> NoneVal, wells_collection |-> NoneVal,
          raised |-> IF pinged.ok THEN counted.exc.type ELSE pinged.exc.type]

NoWellsRequest == [route |-> "none", input |-> NoneVal, response |-> NoneVal]

WellsRequest(route, input, response) ==
    [route |-> route, input |-> input, response |-> response]

\* What is remembered of a response of /wells or /well-details.
Answer(route, response) ==
    [route |-> route, status |-> response.status,
     source |-> IF route = "wells" THEN response.body.source ELSE "none"]

\* Path parameters of /well-details that are explored: a stored well, a point
\* within the tolerance of it, a point just outside, a point far away.
WellPoints ==
    { [lat |-> 286139, lng |-> 772090], [lat |-> 286145, lng |-> 772085],
      [lat |-> 286150, lng |-> 772090], [lat |-> 0, lng |-> 0] }

\* The MongoDB server starts.
MongoStarts ==
    /\ ~mongo_up
    /\ mongo_up' = TRUE
    /\ UNCHANGED <<app_vars, mongo_docs, pymongo_major, wells_phase, wells_globals,
                   connect_raised, wells_last, answered>>

\* The MongoDB server stops or becomes unreachable.
MongoStops ==
    /\ mongo_up
    /\ mongo_up' = FALSE
    /\ UNCHANGED <<app_vars, mongo_docs, pymongo_major, wells_phase, wells_globals,
                   connect_raised, wells_last, answered>>

\* Import of wells_server.py.  The server may stop between the ping and the
\* count; nothing after line 43 assigns client, db or wells_collection.
WellsImport ==
    /\ wells_phase = "importing"
    /\ \E still_up \in {mongo_up, FALSE} :
          LET bound == connect(ping(mongo_up), count_documents(still_up, mongo_docs))
          IN /\ mongo_up' = still_up
             /\ client' = bound.client
             /\ db' = bound.db
             /\ wells_collection' = bound.wells_collection
             /\ connect_raised' = bound.raised
    /\ wells_phase' = "serving"
    /\ UNCHANGED <<app_vars, mongo_docs, pymongo_major, wells_last, answered>>

GetWells ==
    /\ wells_phase = "serving"
    /\ \E random \in RandomRuns :
          wells_last' = WellsRequest("wells", NoneVal,
                            get_wells(wells_collection, mongo_up, mongo_docs, random))
    /\ answered' = answered \cup {Answer("wells", wells_last'.response)}
    /\ UNCHANGED <<app_vars, mongo_up, mongo_docs, pymongo_major, wells_phase,
                   wells_globals, connect_raised>>

GetWellDetails(p) ==
    /\ wells_phase = "serving"
    /\ wells_last' = WellsRequest("well-details", p,
                        get_well_details(wells_collection, mongo_up, mongo_docs,
                                         p.lat, p.lng))
    /\ answered' = answered \cup {Answer("well-details", wells_last'.response)}
    /\ UNCHANGED <<app_vars, mongo_up, mongo_docs, pymongo_major, wells_phase,
                   wells_globals, connect_raised>>

GetWellsSummary ==
    /\ wells_phase = "serving"
    /\ wells_last' = WellsRequest("wells/summary", NoneVal,
                        get_wells_summary(wells_collection, mongo_up, mongo_docs))
    /\ UNCHANGED <<app_vars, mongo_up, mongo_docs, pymongo_major, wells_phase,
                   wells_globals, connect_raised, answered>>

GetWellsHealth ==
    /\ wells_phase = "serving"
    /\ wells_last' = WellsRequest("health", NoneVal,
                        wells_health_check(wells_collection, mongo_up, mongo_docs,
                                           pymongo_major))
    /\ UNCHANGED <<app_vars, mongo_up, mongo_docs, pymongo_major, wells_phase,
                   wells_globals, connect_raised, answered>>

GetWellsRoot ==
    /\ wells_phase = "serving"
    /\ wells_last' = WellsRequest("root", NoneVal,
                        wells_root(wells_collection, mongo_up, mongo_docs,
                                   pymongo_major))
    /\ UNCHANGED <<app_vars, mongo_up, mongo_docs, pymongo_major, wells_phase,
                   wells_globals, connect_raised, answered>>

----------------------------------------------------------------------------

\* The wells server before its import, with the MongoDB server down.
WellsIdle ==
    /\ mongo_up = FALSE
    /\ mongo_docs = <<>>
    /\ pymongo_major = 4
    /\ wells_phase = "importing"
    /\ client = NoneVal
    /\ db = NoneVal
    /\ wells_collection = NoneVal
    /\ connect_raised = "none"
    /\ wells_last = NoWellsRequest
    /\ answered = {}

\* app.py before its import.
AppInit ==
    /\ store \in Stores
    /\ phase = "starting"
    /\ startup_error = "none"
    /\ scaler = NoneVal
    /\ best_xgb = NoneVal
    /\ stacking_model = NoneVal
    /\ residual_model = NoneVal
    /\ ensemble_weights = NoneVal
    /\ training_metadata = NoneVal
    /\ year_min = NoneVal
    /\ year_max = NoneVal
    /\ features = NoneVal
    /\ spatial_lag_mean = NoneVal
    /\ prev_measurement_mean = NoneVal
    /\ prev_year_measurement_mean = NoneVal
    /\ last = NoneVal
    /\ memo = NoneVal

\* The prediction service, the wells server not started.
Init == AppInit /\ WellsIdle

Next ==
    \/ Startup /\ UNCHANGED wells_vars
    \/ \E raw \in Requests : PostPredict(raw) /\ UNCHANGED wells_vars
    \/ GetHealth /\ UNCHANGED wells_vars
    \/ GetRoot /\ UNCHANGED wells_vars

Spec == Init /\ [][Next]_vars

\* The wells server, the prediction service not started.
WellsInit ==
    /\ AppInit
    /\ store = StubStore
    /\ mongo_up \in BOOLEAN
    /\ mongo_docs \in Collections
    /\ pymongo_major \in PymongoMajors
    /\ wells_phase = "importing"
    /\ client = NoneVal
    /\ db = NoneVal
    /\ wells_collection = NoneVal
    /\ connect_raised = "none"
    /\ wells_last = NoWellsRequest
    /\ answered = {}

WellsNext ==
    \/ MongoStarts
    \/ MongoStops
    \/ WellsImport
    \/ GetWells
    \/ \E p \in WellPoints : GetWellDetails(p)
    \/ GetWellsSummary
    \/ GetWellsHealth
    \/ GetWellsRoot

WellsSpec == WellsInit /\ [][WellsNext]_vars


----------------------------------------------------------------------------
(* Properties.                                                              *)

\* The last request was a POST /predict.
LastPredict == last # NoneVal /\ last.route = "predict"

\* The last request was a POST /predict whose body passed validation.
LastAccepted == LastPredict /\ last.response.status # 422

Scenario == Request(286139, 772090, FormatDate(2024, 6, 15))

\* C1: a prediction request is rejected (422) exactly when its latitude is
\* outside [-90, 90], its longitude is outside [-180, 180] or its date does
\* not parse as %Y-%m-%d; the bounds themselves are accepted, 2024-13-40 is
\* rejected, and a rejected request calls no stage of the pipeline.
C1_RejectedExactlyWhenInvalid ==
    LastPredict =>
        LET lat == last.input.latitude
            lon == last.input.longitude
            rejected == last.response.status = 422
        IN  /\ rejected <=> \/ lat < -90 * DegUnit \/ lat > 90 * DegUnit
                            \/ lon < -180 * DegUnit \/ lon > 180 * DegUnit
                            \/ ~strptime(last.input.date).ok
            /\ last.input.date = FormatDate(2024, 13, 40) => rejected
            /\ last.input.date = FormatDate(2024, 2, 30) => rejected
            /\ last.input = Request(900000, 1800000, FormatDate(2024, 2, 29)) => ~rejected
            /\ last.input = Request(-900000, -1800000, FormatDate(2024, 10, 15)) => ~rejected
            /\ rejected => /\ last.calls = <<>>
                           /\ last.features_array = NoneVal
                           /\ last.features_scaled = NoneVal
                           /\ last.xgb_pred = NoneVal
                           /\ last.stacking_pred = NoneVal
                           /\ last.residual_pred = NoneVal

\* Latitude 90 and longitude 180 were accepted, and latitude 90.0001 is rejected.
C1_Witness ==
    /\ LastPredict
    /\ memo # NoneVal
    /\ memo.input.latitude = 900000
    /\ memo.input.longitude = 1800000
    /\ memo.response.status = 200
    /\ last.input.latitude = 900001
    /\ last.response.status = 422
    /\ last.calls = <<>>

\* C2: for every accepted request prepare_features returns 65 features, and
\* of positions 16..65 exactly the one at 0-based index
\* floor((|latitude| + |longitude|) mod 50) is 1 and every other is 0.
C2_ClusterOneHot ==
    LastAccepted =>
        LET fa == last.features_array
            idx == ((Abs(last.input.latitude) + Abs(last.input.longitude))
                        % (50 * DegUnit)) \div DegUnit
        IN  /\ fa # NoneVal
            /\ Len(fa) = 65
            /\ idx \in 0..49
            /\ \A k \in 16..65 : fa[k] = IF k = 16 + idx THEN Num(1, 1) ELSE Num(0, 1)
            /\ Cardinality({k \in 16..65 : fa[k] = Num(1, 1)}) = 1

\* latitude -12.3456, longitude -5.0: bucket floor(17.3456) = 17, position 33.
C2_Witness ==
    /\ LastAccepted
    /\ last.input.latitude = -123456
    /\ last.input.longitude = -50000
    /\ last.features_array[33] = Num(1, 1)

\* C3: a successful response's prediction is
\* xgb_weight * A + stacking_weight * B + R with the weights as loaded from
\* the store, A, B and R the two base models' and the residual model's outputs
\* on the one vector scaler.transform returned; with the stub artifacts the
\* scenario request gets prediction 6.0 and confidence 0.8.
C3_BlendPlusResidual ==
    (LastPredict /\ last.response.status = 200) =>
        LET w == store.weights.obj
            X == last.features_scaled
        IN  /\ X = scaler_transform(store.scaler.obj, last.features_array).val
            /\ last.xgb_pred = model_predict(store.xgb.obj, X).val
            /\ last.stacking_pred = model_predict(store.stacking.obj, X).val
            /\ last.residual_pred = model_predict(store.residual.obj, X).val
            /\ last.response.body.prediction =
                    w.xgb_weight * last.xgb_pred + w.stacking_weight * last.stacking_pred
                    + last.residual_pred * Milli
            /\ (store = StubStore /\ last.input = Scenario) =>
                    /\ last.xgb_pred = 5 * Milli
                    /\ last.stacking_pred = 7 * Milli
                    /\ last.residual_pred = 200
                    /\ last.response.body.prediction = 6 * Micro
                    /\ 10 * last.response.body.confidence = 8 * ConfUnit

\* The scenario request answered with the stub artifacts.
C3_Witness ==
    /\ LastPredict
    /\ store = StubStore
    /\ last.input = Scenario
    /\ last.response.status = 200
    /\ last.response.body.prediction = 6 * Micro

\* C4: the confidence of a successful response is
\* max(0.7, 1 - |prediction - 10| / 20), lies in [0.7, 1.0], and is 1.0
\* exactly when the prediction is 10.
C4_ConfidenceBounds ==
    (LastPredict /\ last.response.status = 200) =>
        LET p == last.response.body.prediction
            c == last.response.body.confidence
        IN  /\ 10 * c >= 7 * ConfUnit
            /\ c <= ConfUnit
            /\ c = ConfUnit <=> p = 10 * Micro
            /\ c = Max(14 * Micro, 20 * Micro - Abs(p - 10 * Micro))

\* A prediction of exactly 10 with confidence 1.0.
C4_Witness ==
    /\ LastPredict
    /\ last.response.status = 200
    /\ last.response.body.prediction = 10 * Micro
    /\ last.response.body.confidence = ConfUnit

\* C5: is_summer is 1 iff the month is 4, 5 or 6, is_winter iff it is 11, 12
\* or 1, is_spring iff it is 2 or 3; so at most one flag is set, and none in
\* months 7, 8, 9 and 10.
C5_SeasonFlags ==
    LastAccepted =>
        LET month == strptime(last.input.date).month
            fa == last.features_array
            Flag(b) == IF b THEN Num(1, 1) ELSE Num(0, 1)
        IN  /\ month \in 1..12
            /\ fa[10] = Flag(month \in {4, 5, 6})
            /\ fa[11] = Flag(month \in {11, 12, 1})
            /\ fa[12] = Flag(month \in {2, 3})
            /\ Cardinality({k \in 10..12 : fa[k] = Num(1, 1)}) <= 1
            /\ month \in 7..10 => \A k \in 10..12 : fa[k] = Num(0, 1)

\* A request of July with no flag set.
C5_Witness ==
    /\ LastAccepted
    /\ strptime(last.input.date).month = 7
    /\ \A k \in 10..12 : last.features_array[k] = Num(0, 1)

\* C6: a request with the input of an earlier request gets the response the
\* earlier one got, whatever was handled in between, and while the service
\* is ready every module global is what the import bound it to.
C6_SameInputSameOutput ==
    /\ (LastPredict /\ memo # NoneVal /\ last.input = memo.input)
            => last.response = memo.response
    /\ phase = "ready" =>
            /\ scaler = store.scaler.obj
            /\ best_xgb = store.xgb.obj
            /\ stacking_model = store.stacking.obj
            /\ residual_model = store.residual.obj
            /\ ensemble_weights = store.weights.obj
            /\ training_metadata = store.metadata.obj
            /\ year_min = YearMinDefault
            /\ year_max = YearMaxDefault
            /\ features = store.metadata.obj.features
            /\ spatial_lag_mean = SpatialLagMean
            /\ prev_measurement_mean = PrevMeasurementMean
            /\ prev_year_measurement_mean = PrevYearMeasurementMean

\* A successful request repeated after another request has failed.
C6_Witness ==
    /\ LastPredict
    /\ memo # NoneVal
    /\ memo.between
    /\ memo.response.status = 200
    /\ last.input = memo.input
    /\ last.response.status = 200

\* C7: an accepted request ends either with the complete record
\* {prediction, confidence, units} after all seven stages, or with the
\* handler's "Prediction error" failure (500) after the stage that raised;
\* the stages called are a prefix of the pipeline, each called once, and
\* nothing of a result is returned with a failure.
C7_FailureCaughtAtBoundary ==
    LastAccepted =>
        /\ last.calls = SubSeq(StageNames, 1, Len(last.calls))
        /\ Len(last.calls) >= 1
        /\ \/ /\ last.raised = "none"
              /\ last.calls = StageNames
              /\ last.response.status = 200
              /\ DOMAIN last.response.body = {"prediction", "confidence", "units"}
           \/ /\ last.raised # "none"
              /\ last.response.status = 500
              /\ DOMAIN last.response.body = {"detail"}
              /\ last.response.body.detail = <<"Prediction error", last.raised>>

\* The blend raised KeyError: five stages called, the failure reported.
C7_Witness ==
    /\ LastAccepted
    /\ last.raised = "KeyError"
    /\ last.calls = SubSeq(StageNames, 1, 5)
    /\ last.response.status = 500

\* C8: the service is ready only when all six files loaded and the six
\* artifacts are bound to what they hold; a request is handled only when it
\* is ready; and a missing file or one whose load raises aborts the import.
C8_ReadyOnlyWithAllArtifacts ==
    /\ phase = "ready" =>
            /\ \A a \in ArtifactNames : store[a].file = "ok"
            /\ scaler = store.scaler.obj
            /\ best_xgb = store.xgb.obj
            /\ stacking_model = store.stacking.obj
            /\ residual_model = store.residual.obj
            /\ ensemble_weights = store.weights.obj
            /\ training_metadata = store.metadata.obj
            /\ startup_error = "none"
    /\ last # NoneVal => phase = "ready"
    /\ (phase # "starting" /\ \E a \in ArtifactNames : store[a].file # "ok") =>
            /\ phase = "aborted"
            /\ startup_error # "none"

\* The import aborted on the metadata file with five artifacts already bound.
C8_Witness ==
    /\ phase = "aborted"
    /\ store.metadata.file # "ok"
    /\ scaler # NoneVal
    /\ ensemble_weights # NoneVal
    /\ training_metadata = NoneVal
    /\ last = NoneVal

\* C9: a scaler fitted on another number of features than prepare_features
\* produces stops the import, and no request fails in scaler.transform.
C9_MismatchFatalAtStartup ==
    /\ (phase # "starting" /\ store.scaler.file = "ok"
            /\ store.scaler.obj.n_features_in_ # NumFeatures) => phase = "aborted"
    /\ LastAccepted => ~(last.raised # "none" /\ Len(last.calls) = 2)

\* The service is ready with a 64-feature scaler and a request failed in
\* scaler.transform.
C9_Witness ==
    /\ LastAccepted
    /\ phase = "ready"
    /\ scaler.n_features_in_ = NumFeatures - 1
    /\ last.calls = SubSeq(StageNames, 1, 2)
    /\ last.raised = "ValueError"
    /\ last.response.status = 500

\* C10: the year bounds prepare_features uses are those of the loaded
\* training metadata.
C10_YearBoundsFromMetadata ==
    /\ phase = "ready" =>
            /\ year_min = training_metadata.year_min
            /\ year_max = training_metadata.year_max
    /\ LastAccepted =>
            LET year == strptime(last.input.date).year
                md == store.metadata.obj
            IN  /\ last.features_array[8] =
                        Feature("sin", year - md.year_min, md.year_max - md.year_min)
                /\ last.features_array[9] =
                        Feature("cos", year - md.year_min, md.year_max - md.year_min)

\* Metadata of 2000..2020 loaded, and a request encoded over 1994..2024.
C10_Witness ==
    /\ LastAccepted
    /\ training_metadata.year_min = 2000
    /\ training_metadata.year_max = 2020
    /\ last.features_array[8].b = YearMaxDefault - YearMinDefault

\* C11: the wells server decides the MongoDB connection once, in its import,
\* and never retries it.  After an import whose connection attempt raised,
\* wells_collection is None for good, whatever the MongoDB server does later;
\* every GET /wells has answered 200 with success and the sample data (source
\* "sample_data"), and every GET /well-details has answered the 503
\* "MongoDB connection not available", not a 500.  After an import that
\* connected, wells_collection stays bound.
C11_ConnectionDecidedAtImport ==
    /\ wells_phase = "serving" /\ connect_raised = "none" => wells_collection = wells
    /\ connect_raised # "none" =>
          /\ wells_phase = "serving"
          /\ wells_collection = NoneVal
          /\ \A a \in answered :
                /\ a.route = "wells" => a.status = 200 /\ a.source = "sample_data"
                /\ a.route = "well-details" => a.status = 503
          /\ wells_last.route = "wells" =>
                /\ wells_last.response.status = 200
                /\ wells_last.response.body.success
                /\ wells_last.response.body.source = "sample_data"
                /\ wells_last.response.body.count = Len(locations)
                /\ \E random \in RandomRuns :
                      wells_last.response.body.data = generate_sample_wells_data(random)
          /\ wells_last.route = "well-details" =>
                wells_last.response =
                    [status |-> 503,
                     body |-> [detail |-> "MongoDB connection not available"]]

\* The connection attempt failed, the MongoDB server has come up since and
\* holds the measurements of a well; /wells has been answered, and the last
\* request, /well-details for that well, got the 503.
C11_Witness ==
    /\ connect_raised # "none"
    /\ mongo_up
    /\ wells_collection = NoneVal
    /\ \E d \in Range(mongo_docs) :
          wells_last.input = [lat |-> d.LATITUDE, lng |-> d.LONGITUDE]
    /\ wells_last.route = "well-details"
    /\ wells_last.response.status = 503
    /\ \E a \in answered : a.route = "wells" /\ a.source = "sample_data"

=============================================================================
